---------------------------- MODULE Spec2Model ----------------------------
(***************************************************************************)
(* A model of finalproject3.py: the COVID-19 data tracker.  The program    *)
(* loads an uploaded CSV file, explores it, cleans it (clean_data) and     *)
(* hands the cleaned table to six chart generators.                        *)
(*                                                                         *)
(* A table (pandas DataFrame) is a sequence of rows; a row is a record of  *)
(* cells.  A numeric cell is a sequence of integers: <<>> is a missing     *)
(* value (NaN), <<v>> the number v, <<n, d>> the ratio n/d (only the       *)
(* derived death_rate column holds ratios; <<1, 0>> is +infinity).         *)
(* A date cell is a record [kind, day]: text read from the CSV file        *)
(* (kind "str"), a parsed timestamp (kind "datetime") or a missing value.  *)
(***************************************************************************)
EXTENDS Integers, Sequences, FiniteSets, TLC

(* ---- bounds of the model ---------------------------------------------- *)
MaxRows == 2
MaxDate == 2
MaxVal == 1
MaxFiles == 2

(* ---- cells ------------------------------------------------------------ *)
NaN == <<>>

Num(v) == <<v>>

Inf == <<1, 0>>

isna(c) == c = NaN

StrDate(d) == [kind |-> "str", day |-> d]

Timestamp(d) == [kind |-> "datetime", day |-> d]

NaT == [kind |-> "NaT", day |-> 0]

MissingDate == [kind |-> "nan", day |-> 0]

\* text in the date column that is no date: pd.to_datetime raises on it
BadDate == StrDate(0)

isnat(c) == c.kind \in {"NaT", "nan"}

(* ---- tables ----------------------------------------------------------- *)
NoneValue == [isNone |-> TRUE, rows |-> <<>>]

DataFrame(rows) == [isNone |-> FALSE, rows |-> rows]

\* mutant: the emptiness test replaced by a test that never finds it empty
empty_Never(df) == df.isNone

\* DataFrame.empty
empty(df) == Len(df.rows) = 0

SetMax(S) == CHOOSE x \in S : \A y \in S : y <= x

SetMin(S) == CHOOSE x \in S : \A y \in S : x <= y

\* the rows of s at the positions in keep, in their order in s
RECURSIVE SelectRows(_, _)
SelectRows(s, keep) ==
    IF s = <<>> THEN <<>>
    ELSE LET n == Len(s)
             front == SelectRows(SubSeq(s, 1, n - 1), keep)
         IN IF n \in keep THEN Append(front, s[n]) ELSE front

(* ---- load_data_from_upload -------------------------------------------- *)
CsvSuffix == <<".", "c", "s", "v">>

\* str.endswith
endswith(fn, suffix) ==
    /\ Len(fn) >= Len(suffix)
    /\ SubSeq(fn, Len(fn) - Len(suffix) + 1, Len(fn)) = suffix

\* a file's bytes: either they do not decode/parse (ok = FALSE) or they
\* parse to the rows in table
Undecodable == [ok |-> FALSE, table |-> <<>>]

Bytes(t) == [ok |-> TRUE, table |-> t]

\* mutant: the loop of lines 18-21 without its break keeps the last '.csv' name
FirstCsv_NoBreak(up) ==
    LET hits == {i \in 1..Len(up) : endswith(up[i].name, CsvSuffix)}
    IN IF hits = {} THEN 0 ELSE SetMax(hits)

\* position of the first uploaded file whose name ends in '.csv', 0 if none
FirstCsv(up) ==
    LET hits == {i \in 1..Len(up) : endswith(up[i].name, CsvSuffix)}
    IN IF hits = {} THEN 0 ELSE SetMin(hits)

\* pd.read_csv: the parsed rows get the RangeIndex 0, 1, ... as their label
read_csv(t) ==
    DataFrame([i \in 1..Len(t) |-> [idx |-> i - 1] @@ t[i]])

(* ---- clean_data ------------------------------------------------------- *)
countries_of_interest == {"United States", "India", "Canada"}

CriticalCols == {"total_cases", "total_deaths", "total_vaccinations"}

NumericNames ==
    {"total_cases", "total_deaths", "total_vaccinations",
     "new_cases_smoothed", "people_vaccinated_per_hundred", "death_rate"}

\* mutant: the location filter left out
FilterCountries_None(s) == s

\* df[df['location'].isin(countries_of_interest)]
FilterCountries(s) ==
    SelectRows(s, {i \in 1..Len(s) : s[i].location \in countries_of_interest})

\* pd.to_datetime on one cell
to_datetime(c) ==
    IF c.kind = "str" THEN Timestamp(c.day)
    ELSE IF c.kind = "datetime" THEN c
    ELSE NaT

ToDatetimeRaises(s) == \E i \in 1..Len(s) : s[i].date = BadDate

ConvertDates(s) ==
    [i \in 1..Len(s) |-> [s[i] EXCEPT !.date = to_datetime(s[i].date)]]

\* the order of the location strings
LocRank(l) ==
    CASE l = "Brazil" -> 1
      [] l = "Canada" -> 2
      [] l = "India" -> 3
      [] l = "United States" -> 4

\* mutant: sort_values(by=['date']) only
Before_DateOnly(a, b) == ~isnat(a.date) /\ (isnat(b.date) \/ a.date.day < b.date.day)

\* a sorts strictly before b by ['location', 'date'], NaT last
Before(a, b) ==
    \/ LocRank(a.location) < LocRank(b.location)
    \/ /\ a.location = b.location
       /\ ~isnat(a.date)
       /\ (isnat(b.date) \/ a.date.day < b.date.day)

\* mutant: an unstable sort, rows of equal key come out in reverse
SortRank_Unstable(s, i) ==
    Cardinality({j \in 1..Len(s) :
                    \/ Before(s[j], s[i])
                    \/ (~Before(s[i], s[j]) /\ j > i)}) + 1

\* the place of row i in the stable sort of s
SortRank(s, i) ==
    Cardinality({j \in 1..Len(s) :
                    \/ Before(s[j], s[i])
                    \/ (~Before(s[i], s[j]) /\ j < i)}) + 1

\* df.sort_values(by=['location', 'date'])
sort_values(s) ==
    [k \in 1..Len(s) |-> s[CHOOSE i \in 1..Len(s) : SortRank(s, i) = k]]

\* mutant: total_vaccinations left out of the subset
dropna_NoVaccinations(s) ==
    SelectRows(s, {i \in 1..Len(s) :
                      /\ ~isnat(s[i].date)
                      /\ ~isna(s[i].total_cases)
                      /\ ~isna(s[i].total_deaths)})

\* df.dropna(subset=['date', 'total_cases', 'total_deaths', 'total_vaccinations'])
dropna(s) ==
    SelectRows(s, {i \in 1..Len(s) :
                      /\ ~isnat(s[i].date)
                      /\ \A c \in CriticalCols : ~isna(s[i][c])})

\* select_dtypes(include=['number']).columns
numeric_cols(s) ==
    IF s = <<>> THEN {} ELSE (DOMAIN s[1]) \cap NumericNames

\* fillna(method='ffill') of column c, at row i
ffillCell(s, c, i) ==
    LET src == {j \in 1..i : ~isna(s[j][c])}
    IN IF src = {} THEN NaN ELSE s[SetMax(src)][c]

\* fillna(method='bfill') of column c, at row i
bfillCell(s, c, i) ==
    LET src == {j \in i..Len(s) : ~isna(s[j][c])}
    IN IF src = {} THEN NaN ELSE s[SetMin(src)][c]

ffill(s, cols) ==
    [i \in 1..Len(s) |->
        [c \in DOMAIN s[i] |-> IF c \in cols THEN ffillCell(s, c, i) ELSE s[i][c]]]

bfill(s, cols) ==
    [i \in 1..Len(s) |->
        [c \in DOMAIN s[i] |-> IF c \in cols THEN bfillCell(s, c, i) ELSE s[i][c]]]

\* mutant: forward fill only
GapFill_ForwardOnly(s) == ffill(s, numeric_cols(s))

\* df[numeric_cols].fillna(method='ffill').fillna(method='bfill')
GapFill(s) == bfill(ffill(s, numeric_cols(s)), numeric_cols(s))

\* clean_data(df): whether it raises, the table it returns and the number of
\* rows it reports as dropped
clean_data_result(df) ==
    LET filtered == FilterCountries(df.rows)
    IN IF ToDatetimeRaises(filtered)
       THEN [raised |-> TRUE, df |-> NoneValue, dropped |-> 0]
       ELSE LET sorted == sort_values(ConvertDates(filtered))
                kept == dropna(sorted)
            IN [raised |-> FALSE,
                df |-> DataFrame(GapFill(kept)),
                dropped |-> Len(sorted) - Len(kept)]

(* ---- chart generators ------------------------------------------------- *)
Generators ==
    {"plot_total_cases", "plot_total_deaths", "compare_daily_new_cases",
     "calculate_and_plot_death_rate", "plot_cumulative_vaccinations",
     "compare_vaccinated_population"}

\* the order of the calls in the main flow
MainOrder ==
    <<"plot_total_cases", "plot_total_deaths", "compare_daily_new_cases",
      "calculate_and_plot_death_rate", "plot_cumulative_vaccinations",
      "compare_vaccinated_population">>

NoChart == [shown |-> FALSE, points |-> <<>>]

\* sns.lineplot(data=df, x='date', y=col, hue='location'): the data drawn
lineplot(s, col) ==
    [shown |-> TRUE,
     points |-> [i \in 1..Len(s) |->
                    [location |-> s[i].location, day |-> s[i].date.day, y |-> s[i][col]]]]

RECURSIVE GCD(_, _)
GCD(a, b) == IF b = 0 THEN a ELSE GCD(b, a % b)

\* (total_deaths / total_cases) * 100 in floating point: 0/0 is NaN, x/0 is inf
Ratio(deaths, cases) ==
    IF isna(deaths) \/ isna(cases) THEN NaN
    ELSE IF cases[1] = 0 THEN (IF deaths[1] = 0 THEN NaN ELSE Inf)
    ELSE LET n == 100 * deaths[1]
             g == GCD(n, cases[1])
         IN <<n \div g, cases[1] \div g>>

\* replace([inf, -inf], pd.NA), taken to act on the column as line 137 intends;
\* with non-negative counts the division never gives -inf
ReplaceInf(c) == IF c = Inf THEN NaN ELSE c

\* fillna(0)
FillZero(c) == IF isna(c) THEN <<0, 1>> ELSE c

\* mutant: rows without cases are removed from the shared table before dividing
WithDeathRate_DropsZeroCases(s) ==
    LET kept == SelectRows(s, {i \in 1..Len(s) : s[i].total_cases # <<0>>})
    IN [i \in 1..Len(kept) |->
           [death_rate |-> Ratio(kept[i].total_deaths, kept[i].total_cases)]
           @@ [c \in (DOMAIN kept[i]) \ {"death_rate"} |-> kept[i][c]]]

\* lines 135-138: the table with the death_rate column added
WithDeathRate(s) ==
    LET raw == [i \in 1..Len(s) |->
                   [death_rate |-> ReplaceInf(Ratio(s[i].total_deaths, s[i].total_cases))]
                   @@ [c \in (DOMAIN s[i]) \ {"death_rate"} |-> s[i][c]]]
        filled == ffill(raw, {"death_rate"})
    IN [i \in 1..Len(s) |-> [filled[i] EXCEPT !.death_rate = FillZero(@)]]

Locations(s) == {s[i].location : i \in 1..Len(s)}

\* df.groupby('location')['date'].idxmax(): for one location, the index label of
\* the first row that has the greatest date
idxmax(s, loc) ==
    LET grp == {i \in 1..Len(s) : s[i].location = loc}
        top == SetMax({s[i].date.day : i \in grp})
    IN s[SetMin({i \in grp : s[i].date.day = top})].idx

\* the locations of s in group order (sorted by location)
RECURSIVE GroupKeys(_)
GroupKeys(L) ==
    IF L = {} THEN <<>>
    ELSE LET l == CHOOSE x \in L : \A y \in L : LocRank(x) <= LocRank(y)
         IN <<l>> \o GroupKeys(L \ {l})

\* df.loc[label]: the rows carrying that index label
loc(s, label) == SelectRows(s, {i \in 1..Len(s) : s[i].idx = label})

RECURSIVE LocAll(_, _)
LocAll(s, labels) ==
    IF labels = <<>> THEN <<>>
    ELSE loc(s, Head(labels)) \o LocAll(s, Tail(labels))

\* lines 173-176
latest_data(s) ==
    LET keys == GroupKeys(Locations(s))
        labels == [k \in 1..Len(keys) |-> idxmax(s, keys[k])]
        latest == LocAll(s, labels)
    IN SelectRows(latest,
                  {i \in 1..Len(latest) : ~isna(latest[i].people_vaccinated_per_hundred)})

\* sns.barplot(data=latest_data, x='location', y='people_vaccinated_per_hundred')
barplot(s) ==
    [shown |-> TRUE,
     points |-> [i \in 1..Len(s) |->
                    [location |-> s[i].location, y |-> s[i].people_vaccinated_per_hundred]]]

(* ---- the program ------------------------------------------------------ *)
VARIABLES pc, uploaded, data, cleaned_data, out, called, charts

vars == <<pc, uploaded, data, cleaned_data, out, called, charts>>

print(msg) == Append(out, msg)

\* lines 10-35 and the test of line 195
load_data_from_upload ==
    /\ pc = "start"
    /\ LET k == FirstCsv(uploaded)
       IN IF k = 0
          THEN /\ out' = print(<<"No CSV file found among uploaded files">>)
               /\ data' = NoneValue
               /\ pc' = "done"
          ELSE IF ~uploaded[k].content.ok
          THEN /\ out' = print(<<"Error loading file">>)
               /\ data' = NoneValue
               /\ pc' = "done"
          ELSE /\ out' = print(<<"Data loaded successfully">>)
               /\ data' = read_csv(uploaded[k].content.table)
               /\ pc' = "explore"
    /\ UNCHANGED <<uploaded, cleaned_data, called, charts>>

\* lines 37-49: prints only
explore_data ==
    /\ pc = "explore"
    /\ out' = print(<<"Data Exploration">>)
    /\ pc' = "clean"
    /\ UNCHANGED <<uploaded, data, cleaned_data, called, charts>>

\* lines 52-79 and the test of line 203
clean_data ==
    /\ pc = "clean"
    /\ LET r == clean_data_result(data)
       IN IF r.raised
          THEN /\ pc' = "crashed"
               /\ UNCHANGED <<cleaned_data, out>>
          ELSE /\ cleaned_data' = r.df
               /\ IF empty(r.df)
                  THEN /\ out' = out \o <<<<"Dropped rows", r.dropped>>,
                                          <<"Data cleaned successfully">>,
                                          <<"Cleaned data is empty">>>>
                       /\ pc' = "done"
                  ELSE /\ out' = out \o <<<<"Dropped rows", r.dropped>>,
                                          <<"Data cleaned successfully">>>>
                       /\ pc' = "plots"
    /\ UNCHANGED <<uploaded, data, called, charts>>

\* whether the main flow calls generator g next
NextInMain(g) ==
    \E k \in 1..Len(MainOrder) :
        /\ MainOrder[k] = g
        /\ called = {MainOrder[j] : j \in 1..(k - 1)}

\* one call of a generator: the chart it shows and the table it leaves
Call(g, inMainOrder, chart, table, msgs) ==
    /\ pc = "plots"
    /\ g \notin called
    /\ inMainOrder => NextInMain(g)
    /\ called' = called \cup {g}
    /\ charts' = [charts EXCEPT ![g] = chart]
    /\ cleaned_data' = table
    /\ out' = out \o msgs
    /\ pc' = IF called' = Generators THEN "done" ELSE "plots"
    /\ UNCHANGED <<uploaded, data>>

plot_total_cases(inMainOrder) ==
    Call("plot_total_cases", inMainOrder,
         lineplot(cleaned_data.rows, "total_cases"), cleaned_data,
         <<<<"Plotting Total COVID-19 Cases Over Time">>>>)

plot_total_deaths(inMainOrder) ==
    Call("plot_total_deaths", inMainOrder,
         lineplot(cleaned_data.rows, "total_deaths"), cleaned_data,
         <<<<"Plotting Total COVID-19 Deaths Over Time">>>>)

compare_daily_new_cases(inMainOrder) ==
    Call("compare_daily_new_cases", inMainOrder,
         lineplot(cleaned_data.rows, "new_cases_smoothed"), cleaned_data,
         <<<<"Comparing Daily New COVID-19 Cases (Smoothed)">>>>)

calculate_and_plot_death_rate(inMainOrder) ==
    LET df == DataFrame(WithDeathRate(cleaned_data.rows))
    IN Call("calculate_and_plot_death_rate", inMainOrder,
            lineplot(df.rows, "death_rate"), df,
            <<<<"Calculating and Plotting Death Rate">>>>)

plot_cumulative_vaccinations(inMainOrder) ==
    Call("plot_cumulative_vaccinations", inMainOrder,
         lineplot(cleaned_data.rows, "total_vaccinations"), cleaned_data,
         <<<<"Plotting Cumulative Vaccinations Over Time">>>>)

compare_vaccinated_population(inMainOrder) ==
    LET latest == latest_data(cleaned_data.rows)
    IN IF latest # <<>>
       THEN Call("compare_vaccinated_population", inMainOrder,
                 barplot(latest), cleaned_data,
                 <<<<"Comparing Vaccinated Population (%)">>>>)
       ELSE Call("compare_vaccinated_population", inMainOrder,
                 NoChart, cleaned_data,
                 <<<<"Comparing Vaccinated Population (%)">>,
                   <<"No vaccination data available for comparison after cleaning">>>>)

Init(Uploads) ==
    /\ pc = "start"
    /\ uploaded \in Uploads
    /\ data = NoneValue
    /\ cleaned_data = NoneValue
    /\ out = <<>>
    /\ called = {}
    /\ charts = [g \in Generators |-> NoChart]

\* lines 191-211
Next ==
    \/ load_data_from_upload
    \/ explore_data
    \/ clean_data
    \/ plot_total_cases(TRUE)
    \/ plot_total_deaths(TRUE)
    \/ compare_daily_new_cases(TRUE)
    \/ calculate_and_plot_death_rate(TRUE)
    \/ plot_cumulative_vaccinations(TRUE)
    \/ compare_vaccinated_population(TRUE)

\* the main flow with the six generators called in any order
NextAnyOrder ==
    \/ load_data_from_upload
    \/ explore_data
    \/ clean_data
    \/ plot_total_cases(FALSE)
    \/ plot_total_deaths(FALSE)
    \/ compare_daily_new_cases(FALSE)
    \/ calculate_and_plot_death_rate(FALSE)
    \/ plot_cumulative_vaccinations(FALSE)
    \/ compare_vaccinated_population(FALSE)

(* ---- the uploads the program is run on -------------------------------- *)
Vals == {Num(v) : v \in 0..MaxVal}

Dates == {StrDate(d) : d \in 1..MaxDate}

AllowedLocations == {"Canada", "India", "United States"}

RowsOf(L, D, TC, TD, TV, NCS, PV) ==
    [location : L, date : D, total_cases : TC, total_deaths : TD,
     total_vaccinations : TV, new_cases_smoothed : NCS,
     people_vaccinated_per_hundred : PV]

TablesOf(R) == UNION {[1..n -> R] : n \in 0..MaxRows}

CsvName == <<"d", ".", "c", "s", "v">>

OtherCsvName == <<"e", ".", "c", "s", "v">>

TxtName == <<"d", ".", "t", "x", "t">>

ShortName == <<"c", "s", "v">>

File(n, c) == [name |-> n, content |-> c]

CsvUploads(R) == {<<File(CsvName, Bytes(t))>> : t \in TablesOf(R)}

OneRow(l, d) ==
    [location |-> l, date |-> d, total_cases |-> Num(MaxVal),
     total_deaths |-> Num(0), total_vaccinations |-> Num(MaxVal),
     new_cases_smoothed |-> NaN, people_vaccinated_per_hundred |-> NaN]

\* uploads of several files: the keys of the uploaded dict are distinct names
AcquisitionUploads ==
    LET Files == [name : {CsvName, OtherCsvName, TxtName, ShortName},
                  content : {Undecodable, Bytes(<<>>),
                             Bytes(<<OneRow("Canada", StrDate(1))>>)}]
        Seqs == UNION {[1..n -> Files] : n \in 0..MaxFiles}
    IN {u \in Seqs : \A i, j \in 1..Len(u) : u[i].name = u[j].name => i = j}

\* failing uploads, part of every run set
EdgeUploads ==
    {<<>>,
     <<File(TxtName, Bytes(<<OneRow("Canada", StrDate(1))>>))>>,
     <<File(CsvName, Undecodable)>>,
     <<File(CsvName, Bytes(<<OneRow("India", BadDate)>>))>>}

MainRows ==
    RowsOf(AllowedLocations \cup {"Brazil"}, Dates \cup {MissingDate, BadDate},
           {NaN, Num(MaxVal)}, {Num(0)}, {Num(MaxVal)}, {NaN}, {NaN})

CriticalRows ==
    RowsOf({"India"}, {MissingDate, StrDate(MaxDate)}, {NaN, Num(MaxVal)},
           {NaN, Num(0)}, {NaN, Num(MaxVal)}, {NaN, Num(MaxVal)}, {Num(0)})

FillRows ==
    RowsOf({"Canada", "India"}, {StrDate(1)}, {NaN, Num(MaxVal)}, {Num(0)},
           {Num(MaxVal)}, {NaN, Num(0), Num(MaxVal)}, {NaN, Num(MaxVal)})

DeathRows ==
    RowsOf(AllowedLocations, {StrDate(1), StrDate(MaxDate)}, {Num(0), Num(MaxVal)},
           {Num(0), Num(MaxVal)}, {Num(MaxVal)}, {Num(0)}, {Num(0)})

VaccRows ==
    RowsOf(AllowedLocations, {StrDate(1), StrDate(MaxDate)}, {Num(MaxVal)},
           {Num(0)}, {Num(MaxVal)}, {Num(0)}, {NaN, Num(0), Num(MaxVal)})

OrderRows ==
    RowsOf({"Canada", "India"}, {StrDate(MaxDate)}, {Num(0), Num(MaxVal)},
           {Num(MaxVal)}, {Num(MaxVal)}, {Num(0)}, {NaN})
    \cup RowsOf({"India"}, {StrDate(MaxDate)}, {Num(MaxVal)},
                {Num(MaxVal)}, {Num(MaxVal)}, {Num(0)}, {Num(MaxVal)})

Spec ==
    Init(AcquisitionUploads \cup EdgeUploads \cup CsvUploads(MainRows)) /\ [][Next]_vars

SpecCritical == Init(EdgeUploads \cup CsvUploads(CriticalRows)) /\ [][Next]_vars

SpecFill == Init(EdgeUploads \cup CsvUploads(FillRows)) /\ [][Next]_vars

SpecDeath == Init(EdgeUploads \cup CsvUploads(DeathRows)) /\ [][Next]_vars

SpecVacc == Init(EdgeUploads \cup CsvUploads(VaccRows)) /\ [][Next]_vars

SpecAnyOrder == Init(EdgeUploads \cup CsvUploads(OrderRows)) /\ [][NextAnyOrder]_vars

(* ---- properties ------------------------------------------------------- *)
\* clean_data has returned a table
Returned == ~cleaned_data.isNone

CleanedRows == cleaned_data.rows

Positions(s) == 1..Len(s)

\* an input row the cleaning keeps: an allow-listed location and no missing
\* value in date, total_cases, total_deaths, total_vaccinations
Kept(r) ==
    /\ r.location \in {"United States", "India", "Canada"}
    /\ r.date.kind = "str"
    /\ r.total_cases # <<>>
    /\ r.total_deaths # <<>>
    /\ r.total_vaccinations # <<>>

KeptInput == {i \in Positions(data.rows) : Kept(data.rows[i])}

\* C1: every row of the table clean_data returns has a location among
\* 'United States', 'India', 'Canada'; rows of any other location never appear.
C1_LocationClosure ==
    Returned =>
        \A i \in Positions(CleanedRows) :
            CleanedRows[i].location \in {"United States", "India", "Canada"}

C1_Witness ==
    /\ Returned
    /\ Len(CleanedRows) > 0
    /\ \E i \in Positions(data.rows) : data.rows[i].location = "Brazil"

\* C2: no row of the cleaned table has a missing value in date, total_cases,
\* total_deaths or total_vaccinations; exactly the input rows of an allow-listed
\* location that have none of them missing remain.
C2_NoMissingCritical ==
    Returned =>
        /\ \A i \in Positions(CleanedRows) :
              /\ CleanedRows[i].date.kind = "datetime"
              /\ CleanedRows[i].total_cases # <<>>
              /\ CleanedRows[i].total_deaths # <<>>
              /\ CleanedRows[i].total_vaccinations # <<>>
        /\ {CleanedRows[i].idx : i \in Positions(CleanedRows)} = {i - 1 : i \in KeptInput}

C2_Witness ==
    /\ Returned
    /\ Len(CleanedRows) > 0
    /\ \E i \in Positions(data.rows) : data.rows[i].total_vaccinations = <<>>

\* C3: the rows of the cleaned table are in non-decreasing order of
\* (location, date).
C3_Ordered ==
    Returned =>
        \A i, j \in Positions(CleanedRows) :
            i < j =>
                \/ LocRank(CleanedRows[i].location) < LocRank(CleanedRows[j].location)
                \/ /\ CleanedRows[i].location = CleanedRows[j].location
                   /\ CleanedRows[i].date.day <= CleanedRows[j].date.day

C3_Witness ==
    /\ Returned
    /\ Len(CleanedRows) = 2
    /\ data.rows[1].location = "India"
    /\ data.rows[2].location = "Canada"

OtherNumeric == {"new_cases_smoothed", "people_vaccinated_per_hundred"}

\* C4 as stated: after the gap-fill no numeric column other than the critical
\* ones has a missing value in any row of the cleaned table.
C4_FullyPopulated ==
    Returned =>
        \A i \in Positions(CleanedRows) : \A c \in OtherNumeric : CleanedRows[i][c] # <<>>

\* C4 amended: a numeric column other than the critical ones has no missing
\* value in any row of the cleaned table when at least one kept row holds a
\* value in it; a column missing in every kept row is missing in every row.
C4_PopulatedWhenAnyValue ==
    Returned =>
        \A c \in OtherNumeric :
            IF \E k \in KeptInput : data.rows[k][c] # <<>>
            THEN \A i \in Positions(CleanedRows) : CleanedRows[i][c] # <<>>
            ELSE \A i \in Positions(CleanedRows) : CleanedRows[i][c] = <<>>

\* a leading gap: in sorted order the first kept row has no value, the second has
C4_Witness ==
    /\ Returned
    /\ Len(CleanedRows) = 2
    /\ data.rows[1].location = "Canada"
    /\ data.rows[2].location = "India"
    /\ data.rows[1].new_cases_smoothed = <<>>
    /\ data.rows[2].new_cases_smoothed # <<>>
    /\ data.rows[1].people_vaccinated_per_hundred # <<>>
    /\ data.rows[2].people_vaccinated_per_hundred = <<>>

\* C5: clean_data run on its own output returns the same table (same rows,
\* order and values), raises nothing and reports zero rows dropped.
C5_Idempotent ==
    (Returned /\ called = {}) =>
        clean_data_result(cleaned_data) =
            [raised |-> FALSE, df |-> cleaned_data, dropped |-> 0]

\* the first run swapped the two input rows and filled a gap
C5_Witness ==
    /\ Returned
    /\ Len(CleanedRows) = 2
    /\ CleanedRows[1].idx = 1
    /\ data.rows[1].new_cases_smoothed = <<>>
    /\ CleanedRows[2].new_cases_smoothed # <<>>

DeathRateDone == "calculate_and_plot_death_rate" \in called

\* the position of the earliest row of location l in the cleaned table
FirstRowOf(l) == SetMin({i \in Positions(CleanedRows) : CleanedRows[i].location = l})

\* C6: once death_rate is computed, the first-date row of a location that has
\* total_cases = 0 and total_deaths = 0 has death_rate 0, for each of the three
\* locations and whatever the rows of the other locations are.
C6_ZeroOverZeroIsZero ==
    DeathRateDone =>
        \A l \in {CleanedRows[i].location : i \in Positions(CleanedRows)} :
            LET r == CleanedRows[FirstRowOf(l)]
            IN (r.total_cases = <<0>> /\ r.total_deaths = <<0>>) => r.death_rate = <<0, 1>>

VaccinationDone == "compare_vaccinated_population" \in called

InputLocations == {data.rows[i].location : i \in Positions(data.rows)}

\* location l has input rows and people_vaccinated_per_hundred missing in all
AllMissing(l) ==
    /\ l \in InputLocations
    /\ \A i \in Positions(data.rows) :
          data.rows[i].location = l => data.rows[i].people_vaccinated_per_hundred = <<>>

Bars == charts["compare_vaccinated_population"]

\* C7: a location whose people_vaccinated_per_hundred is missing on every date
\* of the input is not among the bars of the vaccination comparison; when it is
\* the only location no chart is shown and the message is reported.
C7_AllMissingAbsent ==
    VaccinationDone =>
        \A l \in {"United States", "India", "Canada"} :
            AllMissing(l) =>
                /\ \A k \in Positions(Bars.points) : Bars.points[k].location # l
                /\ InputLocations = {l} =>
                      /\ ~Bars.shown
                      /\ \E k \in Positions(out) :
                            out[k] = <<"No vaccination data available for comparison after cleaning">>

\* the name ends in '.csv'
IsCsvName(fn) ==
    /\ Len(fn) >= 4
    /\ fn[Len(fn) - 3] = "."
    /\ fn[Len(fn) - 2] = "c"
    /\ fn[Len(fn) - 1] = "s"
    /\ fn[Len(fn)] = "v"

NoCsvUploaded == \A i \in Positions(uploaded) : ~IsCsvName(uploaded[i].name)

FirstCsvFails ==
    \E i \in Positions(uploaded) :
        /\ IsCsvName(uploaded[i].name)
        /\ \A j \in 1..(i - 1) : ~IsCsvName(uploaded[j].name)
        /\ ~uploaded[i].content.ok

\* nothing after the acquisition has run
Halted(msg) ==
    /\ pc = "done"
    /\ data = NoneValue
    /\ out = <<msg>>
    /\ cleaned_data = NoneValue
    /\ called = {}
    /\ \A g \in Generators : ~charts[g].shown

\* C8: when no uploaded name ends in '.csv', or the first '.csv' file fails to
\* decode or parse, load_data_from_upload returns None with its report and the
\* main flow runs none of explore_data, clean_data and the chart generators.
C8_AcquisitionFailureHalts ==
    pc # "start" =>
        /\ NoCsvUploaded => Halted(<<"No CSV file found among uploaded files">>)
        /\ FirstCsvFails => Halted(<<"Error loading file">>)

C8_Witness ==
    /\ pc = "done"
    /\ Len(uploaded) = 2
    /\ ~IsCsvName(uploaded[1].name)
    /\ IsCsvName(uploaded[2].name)
    /\ ~uploaded[2].content.ok

\* every input row of an allow-listed location has a missing critical value
NothingKept ==
    /\ ~data.isNone
    /\ KeptInput = {}
    /\ \A i \in Positions(data.rows) :
          data.rows[i].location \in {"United States", "India", "Canada"}
              => data.rows[i].date # BadDate

\* C9: when the cleaned table has zero rows clean_data returns an empty table
\* without raising, no chart generator is called and the empty-data message is
\* reported; a generator is called only once clean_data returned rows.
C9_EmptyCleanedSkipsCharts ==
    /\ (NothingKept /\ pc \notin {"start", "explore", "clean"}) =>
          /\ pc = "done"
          /\ cleaned_data = DataFrame(<<>>)
          /\ called = {}
          /\ \A g \in Generators : ~charts[g].shown
          /\ out[Len(out)] = <<"Cleaned data is empty">>
    /\ called # {} => (Returned /\ Len(CleanedRows) > 0)

C9_Witness ==
    /\ pc = "done"
    /\ Len(data.rows) = 2
    /\ data.rows[1].location = "India"
    /\ data.rows[2].location = "Canada"
    /\ cleaned_data = DataFrame(<<>>)

\* the table as clean_data returned it
Original == clean_data_result(data).df.rows

WithoutDeathRate(s) ==
    [i \in Positions(s) |-> [c \in (DOMAIN s[i]) \ {"death_rate"} |-> s[i][c]]]

\* what generator g draws when it is handed the table s
Drawn(g, s) ==
    CASE g = "plot_total_cases" -> lineplot(s, "total_cases")
      [] g = "plot_total_deaths" -> lineplot(s, "total_deaths")
      [] g = "compare_daily_new_cases" -> lineplot(s, "new_cases_smoothed")
      [] g = "plot_cumulative_vaccinations" -> lineplot(s, "total_vaccinations")
      [] g = "calculate_and_plot_death_rate" -> lineplot(WithDeathRate(s), "death_rate")
      [] g = "compare_vaccinated_population" ->
             LET latest == latest_data(s)
             IN IF latest = <<>> THEN NoChart ELSE barplot(latest)

\* C10: in every order of the six calls each generator draws what it draws on
\* the table clean_data returned; the only change to the shared table is the
\* death_rate column, added by calculate_and_plot_death_rate, with the rows,
\* their order and every other column unchanged.
C10_OrderIndependent ==
    (Returned /\ pc \in {"plots", "done"}) =>
        LET orig == Original
        IN /\ \A g \in called : charts[g] = Drawn(g, orig)
           /\ WithoutDeathRate(CleanedRows) = orig
           /\ \A i \in Positions(CleanedRows) :
                 ("death_rate" \in DOMAIN CleanedRows[i]) <=> DeathRateDone

\* all six were called, the death rate first and the total deaths after it
C10_Witness ==
    /\ pc = "done"
    /\ called = Generators
    /\ out[5] = <<"Calculating and Plotting Death Rate">>
    /\ out[6] = <<"Plotting Total COVID-19 Deaths Over Time">>
    /\ \E i \in Positions(CleanedRows) : CleanedRows[i].total_cases = <<0>>

=============================================================================
